---- MODULE Spec2Model ----
(***************************************************************************)
(* Helmet-Detection: the notification dispatcher (src/utils/notifier.py),  *)
(* the rider/helmet association rule (src/core/dectector.py) and the       *)
(* suppression of overlapping detections (src/core/model.py).              *)
(*                                                                         *)
(* Dispatcher.  NotificationManager owns one Queue and one daemon worker   *)
(* thread.  Producers (send_violation_notice, send_fine_receipt) build a   *)
(* message and put a notification dict on the queue; the worker polls the  *)
(* queue, calls _send_email once per dequeued notification and, on         *)
(* failure, sleeps the retry delay and puts the same dict back.            *)
(* The code keeps neither a job id nor a status: the model numbers the     *)
(* notifications in the order they are put (their index in `jobs`) and     *)
(* derives a status from where a notification is (Status below).  `log`    *)
(* is history kept for the properties; no action reads it in a guard.      *)
(* Time is the integer `now` in seconds; only time.sleep advances it.      *)
(* The except clause of the worker loop (lines 143-145) is not reachable:  *)
(* _send_email catches every exception and the other statements of the    *)
(* try block cannot raise on the dicts the producers build.                *)
(*                                                                         *)
(* Association.  ViolationDetector._check_violations is a pure function of *)
(* the detection list and the configuration.  Confidences are integers     *)
(* (percent), bounding boxes are integer tuples <<x, y, w, h>>.            *)
(*                                                                         *)
(* Batch.  send_batch_notifications is one more caller thread: it calls    *)
(* send_violation_notice once per payload and counts the outcomes.         *)
(*                                                                         *)
(* Suppression.  YOLOModel.postprocess_detections filters the raw rows by  *)
(* confidence, converts them and hands them to _apply_nms, which keeps the *)
(* detections whose indexes cv2.dnn.NMSBoxes returns.  NMSBoxes is         *)
(* modelled as OpenCV implements it: candidates above the score threshold, *)
(* stable sort by descending score, a candidate kept when its overlap with *)
(* every kept box is at most the threshold, no notion of class.            *)
(*                                                                         *)
(* Video.  VideoProcessor.process counts the frames, skips by frame_skip   *)
(* and keeps the processed frames in a bounded buffer                      *)
(* (src/core/processor.py).                                                *)
(*                                                                         *)
(* Ledger.  DatabaseManager (src/utils/database.py) runs every method on   *)
(* a connection of its own; the database is a file that all connections    *)
(* share and SQLite serialises the writers.                                *)
(*                                                                         *)
(* Instances.  Several NotificationManagers side by side, each with the    *)
(* queue and the worker its constructor made.                              *)
(***************************************************************************)
EXTENDS Integers, Sequences, FiniteSets, TLC

\* ------------------------------------------------------------------ bounds
MaxCalls == 2       \* producer calls made in one behaviour
NumProducers == 2   \* producer threads
MaxIdleTime == 1    \* the worker polls an empty queue only before this time
MaxDets == 3        \* detections in one frame
MaxBatch == 3       \* payloads in one send_batch_notifications call
MaxRaw == 3         \* rows of one raw detection array
MaxFrames == 5      \* calls made on one VideoProcessor
MaxRecords == 3     \* record_violation calls made on one database
NumWriters == 2     \* threads that call record_violation
NumInstances == 2   \* NotificationManager instances alive together

\* --------------------------------------------------------- program constants
\* self.retry_delays = [5, 15, 30]
retry_delays == <<5, 15, 30>>

\* time.sleep(1) at the end of every worker iteration
PollSleep == 1

\* "the configured maximum number of retries": len(self.retry_delays)
MaxRetries == Len(retry_delays)

VARIABLES
    queue,          \* notification_queue: FIFO of job indexes (dict references)
    jobs,           \* the notification dicts, in creation order
    wpc,            \* the worker thread's position
    notification,   \* the worker's local `notification` (0: none)
    retry_delay,    \* the worker's local `retry_delay`
    now,            \* the clock
    ppc,            \* each producer's position
    parg,           \* each producer's prepared notification
    calls,          \* producer calls started
    accepted,       \* producer calls that returned True
    rejected,       \* producer calls that returned False
    dropped,        \* jobs the worker let go of after a failed send
    rejects,        \* the recipients of the payloads a producer call refused
    log             \* per job: sends, deliveries, dequeues, time of last failure, waits

VARIABLES
    transport,      \* how the SMTP server behaves: "any", "fail_once"
    bpc,            \* the position of the caller of send_batch_notifications
    payloads,       \* its argument `violations`: the recipient of each payload
    bidx,           \* the index of the loop's current payload
    results,        \* its local `results`
    bjob            \* per payload handled: the job it became (0: refused)

VARIABLES
    detections,           \* the frame's detection list
    min_confidence,       \* config['MIN_CONFIDENCE']
    max_helmet_distance,  \* config['VIOLATION_RULES']['MAX_HELMET_DISTANCE']
    violations,           \* what _check_violations returned
    apc                   \* "frame": not yet evaluated, "done": evaluated

VARIABLES
    raw,                   \* the rows given to postprocess_detections
    confidence_threshold,  \* config['CONFIDENCE_THRESHOLD'], percent
    nms_threshold,         \* config['NMS_THRESHOLD'], percent
    processed,             \* processed_detections at line 65
    indices,               \* what cv2.dnn.NMSBoxes returned for them
    output,                \* what postprocess_detections returned
    again,                 \* what _apply_nms returned for `output`
    npc                    \* "raw", "suppressed", "twice"

VARIABLES
    frame_skip,     \* config.get('FRAME_SKIP', 0)
    buffer_size,    \* config.get('BUFFER_SIZE', 10)
    frame_buffer,   \* VideoProcessor.frame_buffer
    frame_count,    \* VideoProcessor.frame_count
    buffered,       \* every frame update_buffer was given, in order
    returns         \* per call of process: the frame given and what was returned

avars == <<detections, min_confidence, max_helmet_distance, violations, apc>>

VARIABLES
    owners,         \* table vehicle_owners: the license plates registered
    ledger,         \* table violations: the committed rows, in commit order
    dblock,         \* the thread that holds the database's write lock (0: none)
    lpc,            \* each writer's position in record_violation
    lrow,           \* each writer's inserted, not yet committed row
    ids,            \* what the record_violation calls returned, in order
    last_marked,    \* the id given to mark_violation_processed by the last step
    lcalls          \* record_violation calls started

VARIABLES
    iqueue,         \* the queue object of each NotificationManager
    ijobs,          \* the notification dicts put on each queue object
    iwpc,           \* each instance's worker thread's position
    iheld,          \* each worker's local `notification` (0: none)
    iactor,         \* the instance that took the last step
    icalls          \* producer calls made on the instances

pvars == <<frame_skip, buffer_size, frame_buffer, frame_count, buffered, returns>>

lvars == <<owners, ledger, dblock, lpc, lrow, ids, last_marked, lcalls>>

ivars == <<iqueue, ijobs, iwpc, iheld, iactor, icalls>>

\* the components added to the dispatcher, the detector and the suppressor
ovars == <<pvars, lvars, ivars>>

Writers == 1..NumWriters
Instances == 1..NumInstances

nvars == <<raw, confidence_threshold, nms_threshold, processed, indices, output, again, npc>>

dvars == <<queue, jobs, wpc, notification, retry_delay, now, ppc, parg,
           calls, accepted, rejected, dropped, rejects, log>>

bvars == <<bpc, payloads, bidx, results, bjob>>

vars == <<dvars, bvars, transport, avars, nvars, ovars>>

Producers == 1..NumProducers
JobIds == 1..Len(jobs)
Recipients == {"valid", "invalid", "missing"}

\* ------------------------------------------------------------------ helpers
RECURSIVE SeqCount(_, _)
SeqCount(s, x) ==
    IF s = <<>> THEN 0
    ELSE (IF Head(s) = x THEN 1 ELSE 0) + SeqCount(Tail(s), x)

InQueue(j) == \E i \in 1..Len(queue) : queue[i] = j

\* Queue.put / Queue.get / Queue.empty of the standard library, as used here:
\* an unbounded FIFO whose operations are atomic.
QueuePutLossy(q, item) == IF q = <<>> THEN Append(q, item) ELSE q
QueuePut(q, item) == Append(q, item)

\* Queue() at line 60 has maxsize 0: the queue is never full and put never
\* waits for room.
QueueFullAtOne(q) == Len(q) >= 1
QueueFull(q) == FALSE

\* retry_delays[notification['retry_count']]: Python indexes from 0
RetryDelayFirst(rc) == retry_delays[1]
RetryDelay(rc) == retry_delays[rc + 1]

\* the guard of line 134
ShouldRetryShort(success, rc) == ~success /\ rc < Len(retry_delays) - 1
ShouldRetryAny(success, rc) == rc < Len(retry_delays)
ShouldRetryNever(success, rc) == FALSE
ShouldRetry(success, rc) == ~success /\ rc < Len(retry_delays)

\* notification['retry_count'] += 1
NextRetryCountTwice(rc) == rc + 2
NextRetryCount(rc) == rc + 1

\* time.sleep(d)
SleepSkipped(t, d) == t
Sleep(t, d) == t + d

\* _get_sent_count / _get_failed_count: stubs that return 0
_get_sent_count == 0
_get_failed_count == 0

get_notification_stats ==
    [queue_size |-> Len(queue),
     notifications_sent |-> _get_sent_count,
     failed_notifications |-> _get_failed_count]

\* _send_email calls made so far
RECURSIVE SumSends(_)
SumSends(l) == IF l = <<>> THEN 0 ELSE Head(l).sends + SumSends(Tail(l))

TransportCalls == SumSends(log)

\* The SMTP server of a run: "any" accepts or refuses each message as it
\* likes; "fail_once" refuses the first message it is given and accepts
\* every later one.
TransportAllows(success) ==
    transport = "fail_once" => (success <=> TransportCalls > 0)

\* Where a notification is, in the words of the job state machine.
Status(j) ==
    IF InQueue(j) THEN "QUEUED"
    ELSE IF notification = j /\ wpc \in {"send", "hung"} THEN "SENDING"
    ELSE IF notification = j /\ wpc \in {"sleep_retry", "put"} THEN "RETRY_SCHEDULED"
    ELSE IF log[j].delivered > 0 THEN "SENT"
    ELSE IF j \in dropped THEN "DEAD"
    ELSE "LOST"

\* ------------------------------------------------------------------- Init
NoArg == [recipient |-> "none", type |-> "none"]

NewLog == [sends |-> 0, delivered |-> 0, dequeues |-> 0, failedAt |-> 0, waits |-> <<>>]

InitD ==
    /\ queue = <<>>
    /\ jobs = <<>>
    /\ wpc = "poll"
    /\ notification = 0
    /\ retry_delay = 0
    /\ now = 0
    /\ ppc = [p \in Producers |-> "idle"]
    /\ parg = [p \in Producers |-> NoArg]
    /\ calls = 0
    /\ accepted = 0
    /\ rejected = 0
    /\ dropped = {}
    /\ rejects = {}
    /\ log = <<>>

\* send_batch_notifications has not been called.
IdleB ==
    /\ bpc = "idle"
    /\ payloads = <<>>
    /\ bidx = 0
    /\ results = [success |-> 0, failed |-> 0, queued |-> 0]
    /\ bjob = <<>>

\* No raw detection array has been handed to the model.
IdleN ==
    /\ raw = <<>>
    /\ confidence_threshold = 50
    /\ nms_threshold = 40
    /\ processed = <<>>
    /\ indices = <<>>
    /\ output = <<>>
    /\ again = <<>>
    /\ npc = "raw"

\* A VideoProcessor with the defaults and no call made.
IdleP ==
    /\ frame_skip = 0
    /\ buffer_size = 10
    /\ frame_buffer = <<>>
    /\ frame_count = 0
    /\ buffered = <<>>
    /\ returns = <<>>

NoRow == [id |-> 0, license_plate |-> "none"]

\* A database with its two tables created and empty (lines 10-38).
IdleL ==
    /\ owners = {}
    /\ ledger = <<>>
    /\ dblock = 0
    /\ lpc = [t \in Writers |-> "idle"]
    /\ lrow = [t \in Writers |-> NoRow]
    /\ ids = <<>>
    /\ last_marked = 0
    /\ lcalls = 0

\* NotificationManager instances just constructed (lines 57-67).
IdleI ==
    /\ iqueue = [i \in Instances |-> <<>>]
    /\ ijobs = [i \in Instances |-> <<>>]
    /\ iwpc = [i \in Instances |-> "poll"]
    /\ iheld = [i \in Instances |-> 0]
    /\ iactor = 0
    /\ icalls = 0

\* The other components at rest.
IdleO == IdleP /\ IdleL /\ IdleI

\* No frame has been handed to the detector.
IdleA ==
    /\ detections = <<>>
    /\ min_confidence = 50
    /\ max_helmet_distance = 50
    /\ violations = <<>>
    /\ apc = "frame"

\* ------------------------------------------------------------- producers
\* Lines 73-89 / 167-174: build the message.  violation_data['owner_email']
\* (payment_data['email']) raises KeyError when the key is missing; the
\* except clause returns False.  Any other value is stored as the recipient.
Prepare(p, kind, recipient) ==
    /\ ppc[p] = "idle"
    /\ calls < MaxCalls
    /\ calls' = calls + 1
    /\ IF recipient = "missing"
         THEN /\ rejected' = rejected + 1
              /\ rejects' = rejects \cup {recipient}
              /\ UNCHANGED <<ppc, parg>>
         ELSE /\ ppc' = [ppc EXCEPT ![p] = "put"]
              /\ parg' = [parg EXCEPT ![p] = [recipient |-> recipient, type |-> kind]]
              /\ UNCHANGED <<rejected, rejects>>
    /\ UNCHANGED <<queue, jobs, wpc, notification, retry_delay, now, accepted, dropped, log>>
    /\ UNCHANGED <<bvars, transport, avars, nvars, ovars>>

send_violation_notice(p, owner_email) == Prepare(p, "violation_notice", owner_email)

send_fine_receipt(p, email) == Prepare(p, "fine_receipt", email)

\* Lines 92-100 / 176-184: put the dict with retry_count 0, return True.
ProducerPut(p) ==
    /\ ppc[p] = "put"
    /\ ~QueueFull(queue)
    /\ jobs' = Append(jobs, [recipient |-> parg[p].recipient, type |-> parg[p].type,
                             retry_count |-> 0])
    /\ log' = Append(log, NewLog)
    /\ queue' = QueuePut(queue, Len(jobs) + 1)
    /\ ppc' = [ppc EXCEPT ![p] = "idle"]
    /\ parg' = [parg EXCEPT ![p] = NoArg]
    /\ accepted' = accepted + 1
    /\ UNCHANGED <<wpc, notification, retry_delay, now, calls, rejected, dropped>>
    /\ UNCHANGED <<rejects, bvars, transport, avars, nvars, ovars>>

\* ------------------------------------------------- send_batch_notifications
\* Lines 113-120: after a payload that send_violation_notice refused, the
\* loop goes on with the next payload.
AfterRejectedBreak(i, n) == n + 1
AfterRejected(i, n) == i + 1

\* Lines 108-112: results = {success: 0, failed: 0, queued: len(violations)}.
send_batch_notifications(vs) ==
    /\ bpc = "idle"
    /\ payloads' = vs
    /\ bidx' = 1
    /\ results' = [success |-> 0, failed |-> 0, queued |-> Len(vs)]
    /\ bjob' = <<>>
    /\ bpc' = "loop"
    /\ UNCHANGED <<dvars, transport, avars, nvars, ovars>>

\* Lines 114-116 calling lines 73-89: send_violation_notice builds the
\* message; a payload without 'owner_email' makes it return False
\* (lines 102-104) and the loop counts it as failed (lines 117-118).
BatchPrepareUncounted ==
    /\ bpc = "loop"
    /\ bidx <= Len(payloads)
    /\ calls' = calls + 1
    /\ IF payloads[bidx] = "missing"
         THEN /\ rejected' = rejected + 1
              /\ rejects' = rejects \cup {payloads[bidx]}
              /\ bjob' = Append(bjob, 0)
              /\ bidx' = AfterRejected(bidx, Len(payloads))
              /\ UNCHANGED <<bpc, results>>
         ELSE /\ bpc' = "put"
              /\ UNCHANGED <<rejected, rejects, results, bjob, bidx>>
    /\ UNCHANGED <<queue, jobs, wpc, notification, retry_delay, now, ppc, parg,
                   accepted, dropped, log, payloads>>
    /\ UNCHANGED <<transport, avars, nvars, ovars>>
BatchPrepare ==
    /\ bpc = "loop"
    /\ bidx <= Len(payloads)
    /\ calls' = calls + 1
    /\ IF payloads[bidx] = "missing"
         THEN /\ rejected' = rejected + 1
              /\ rejects' = rejects \cup {payloads[bidx]}
              /\ results' = [results EXCEPT !.failed = @ + 1]
              /\ bjob' = Append(bjob, 0)
              /\ bidx' = AfterRejected(bidx, Len(payloads))
              /\ UNCHANGED bpc
         ELSE /\ bpc' = "put"
              /\ UNCHANGED <<rejected, rejects, results, bjob, bidx>>
    /\ UNCHANGED <<queue, jobs, wpc, notification, retry_delay, now, ppc, parg,
                   accepted, dropped, log, payloads>>
    /\ UNCHANGED <<transport, avars, nvars, ovars>>

\* Lines 92-100 and 115-116: the put, return True, results['success'] += 1.
BatchPut ==
    /\ bpc = "put"
    /\ ~QueueFull(queue)
    /\ jobs' = Append(jobs, [recipient |-> payloads[bidx], type |-> "violation_notice",
                             retry_count |-> 0])
    /\ log' = Append(log, NewLog)
    /\ queue' = QueuePut(queue, Len(jobs) + 1)
    /\ accepted' = accepted + 1
    /\ results' = [results EXCEPT !.success = @ + 1]
    /\ bjob' = Append(bjob, Len(jobs) + 1)
    /\ bidx' = bidx + 1
    /\ bpc' = "loop"
    /\ UNCHANGED <<wpc, notification, retry_delay, now, ppc, parg, calls, rejected,
                   dropped, rejects, payloads>>
    /\ UNCHANGED <<transport, avars, nvars, ovars>>

\* Line 124: return results.
BatchReturn ==
    /\ bpc = "loop"
    /\ bidx > Len(payloads)
    /\ bpc' = "done"
    /\ UNCHANGED <<payloads, bidx, results, bjob>>
    /\ UNCHANGED <<dvars, transport, avars, nvars, ovars>>

\* ---------------------------------------------------------------- worker
\* Lines 130-131: if the queue is not empty, get its head.
WorkerPoll ==
    /\ wpc = "poll"
    /\ IF queue = <<>>
         THEN /\ now < MaxIdleTime
              /\ wpc' = "sleep1"
              /\ UNCHANGED <<queue, notification, log>>
         ELSE /\ notification' = Head(queue)
              /\ queue' = Tail(queue)
              /\ log' = [log EXCEPT ![Head(queue)].dequeues = @ + 1]
              /\ wpc' = "send"
    /\ UNCHANGED <<jobs, retry_delay, now, ppc, parg, calls, accepted, rejected, dropped>>
    /\ UNCHANGED <<rejects, bvars, transport, avars, nvars, ovars>>

\* Lines 132-137: one _send_email call (Transport: True or False; a
\* recipient that is no address is refused) and the decision of line 134.
WorkerSend(success) ==
    /\ wpc = "send"
    /\ jobs[notification].recipient = "invalid" => ~success
    /\ TransportAllows(success)
    /\ LET j == notification
           rc == jobs[j].retry_count
           sent == [log EXCEPT ![j].sends = @ + 1,
                               ![j].delivered = @ + (IF success THEN 1 ELSE 0),
                               ![j].failedAt = IF success THEN @ ELSE now]
       IN /\ log' = sent
          /\ IF ShouldRetry(success, rc)
               THEN /\ retry_delay' = RetryDelay(rc)
                    /\ jobs' = [jobs EXCEPT ![j].retry_count = NextRetryCount(rc)]
                    /\ wpc' = "sleep_retry"
                    /\ UNCHANGED <<notification, dropped>>
               ELSE /\ dropped' = IF success THEN dropped ELSE dropped \cup {j}
                    /\ notification' = 0
                    /\ wpc' = "sleep1"
                    /\ UNCHANGED <<jobs, retry_delay>>
    /\ UNCHANGED <<queue, now, ppc, parg, calls, accepted, rejected>>
    /\ UNCHANGED <<rejects, bvars, transport, avars, nvars, ovars>>

\* Line 138: time.sleep(retry_delay), in the worker thread itself.
WorkerSleepRetry ==
    /\ wpc = "sleep_retry"
    /\ now' = Sleep(now, retry_delay)
    /\ wpc' = "put"
    /\ UNCHANGED <<queue, jobs, notification, retry_delay, ppc, parg, calls,
                   accepted, rejected, dropped, log>>
    /\ UNCHANGED <<rejects, bvars, transport, avars, nvars, ovars>>

\* Line 139: put the same dict back at the tail.
WorkerPut ==
    /\ wpc = "put"
    /\ queue' = QueuePut(queue, notification)
    /\ log' = [log EXCEPT ![notification].waits = Append(@, now - log[notification].failedAt)]
    /\ notification' = 0
    /\ wpc' = "sleep1"
    /\ UNCHANGED <<jobs, retry_delay, now, ppc, parg, calls, accepted, rejected, dropped>>
    /\ UNCHANGED <<rejects, bvars, transport, avars, nvars, ovars>>

\* Line 141: time.sleep(1).
WorkerSleep1 ==
    /\ wpc = "sleep1"
    /\ now' = Sleep(now, PollSleep)
    /\ wpc' = "poll"
    /\ UNCHANGED <<queue, jobs, notification, retry_delay, ppc, parg, calls,
                   accepted, rejected, dropped, log>>
    /\ UNCHANGED <<rejects, bvars, transport, avars, nvars, ovars>>

NextD ==
    \/ \E p \in Producers, r \in Recipients : send_violation_notice(p, r)
    \/ \E p \in Producers, r \in Recipients : send_fine_receipt(p, r)
    \/ \E p \in Producers : ProducerPut(p)
    \/ WorkerPoll
    \/ \E s \in BOOLEAN : WorkerSend(s)
    \/ WorkerSleepRetry
    \/ WorkerPut
    \/ WorkerSleep1

Init == InitD /\ transport = "any" /\ IdleB /\ IdleA /\ IdleN /\ IdleO

Spec == Init /\ [][NextD]_vars

\* ---------------------------------------------------- hangs and process exit
\* Lines 150-151: smtplib.SMTP(server, port) is given no timeout and the
\* module sets no socket default, so a server that accepts the connection
\* and then stays silent blocks the call in recv without end.  _send_email
\* neither returns nor raises; the worker has no other statement to run.
TransportHangs ==
    /\ wpc = "send"
    /\ wpc' = "hung"
    /\ UNCHANGED <<queue, jobs, notification, retry_delay, now, ppc, parg, calls,
                   accepted, rejected, dropped, log>>
    /\ UNCHANGED <<rejects, bvars, transport, avars, nvars, ovars>>

\* Lines 64-67: the worker is a daemon thread running `while True`, and the
\* class has no method that stops it.  The one way the dispatcher stops is
\* the exit of the process, which ends the worker wherever it is and every
\* caller with it; the Queue lives in memory only.
ProcessExit ==
    /\ wpc # "killed"
    /\ wpc' = "killed"
    /\ ppc' = [p \in Producers |-> "exited"]
    /\ UNCHANGED <<queue, jobs, notification, retry_delay, now, parg, calls,
                   accepted, rejected, dropped, log>>
    /\ UNCHANGED <<rejects, bvars, transport, avars, nvars, ovars>>

\* The jobs the dispatcher hands back to its caller or writes to a store
\* when it stops: no statement of the class does either.
Surfaced == {}

\* One step of the worker thread.
WorkerNext ==
    \/ WorkerPoll
    \/ \E s \in BOOLEAN : WorkerSend(s)
    \/ WorkerSleepRetry
    \/ WorkerPut
    \/ WorkerSleep1

FaultNext ==
    \/ \E p \in Producers, r \in Recipients : send_violation_notice(p, r)
    \/ \E p \in Producers, r \in Recipients : send_fine_receipt(p, r)
    \/ \E p \in Producers : ProducerPut(p)
    \/ WorkerPoll
    \/ \E s \in BOOLEAN : WorkerSend(s)
    \/ WorkerSleepRetry
    \/ WorkerPut
    \/ WorkerSleep1
    \/ TransportHangs
    \/ ProcessExit

FaultSpec == Init /\ [][FaultNext]_vars

\* One caller of send_batch_notifications beside the worker.
BatchRecipients == {"valid", "invalid", "missing"}

BatchInputs == UNION {[1..n -> BatchRecipients] : n \in 0..MaxBatch}

BatchNext ==
    \/ \E vs \in BatchInputs : send_batch_notifications(vs)
    \/ BatchPrepare
    \/ BatchPut
    \/ BatchReturn
    \/ WorkerPoll
    \/ \E s \in BOOLEAN : WorkerSend(s)
    \/ WorkerSleepRetry
    \/ WorkerPut
    \/ WorkerSleep1

BatchSpec == Init /\ [][BatchNext]_vars

\* ------------------------------------------------------------ association
Classes == {"rider", "helmet", "motorcycle"}
Confidences == {40, 60}
Thresholds == {50, 60, 70}
Distances == {5, 6}
\* centers (1,1), (4,5), (11,1): 5 and 10 apart from the first
Boxes == {<<0, 0, 2, 2>>, <<3, 4, 2, 2>>, <<10, 0, 3, 3>>}

Detections == [class_name : Classes, confidence : Confidences, bbox : Boxes]

Frames == UNION {[1..n -> Detections] : n \in 0..MaxDets}

\* line 41: if detection['confidence'] < self.min_confidence: continue
BelowThresholdNever(d, minc) == FALSE
BelowThreshold(d, minc) == d.confidence < minc

\* line 44
IsRiderNotHelmet(d) == d.class_name # "helmet"
IsRider(d) == d.class_name = "rider"

\* line 46
IsHelmet(d) == d.class_name = "helmet"

\* lines 78-82: (x + w//2, y + h//2)
_get_bbox_center(bbox) == <<bbox[1] + (bbox[3] \div 2), bbox[2] + (bbox[4] \div 2)>>

\* lines 69-73: np.linalg.norm(rider_center - helmet_center) < MAX_HELMET_DISTANCE.
\* On integers, sqrt(n) < D exactly when n < D * D.
CloserThan(c1, c2, dist) ==
    (c1[1] - c2[1]) * (c1[1] - c2[1]) + (c1[2] - c2[2]) * (c1[2] - c2[2]) < dist * dist

\* lines 63-76: the loop returns True at the first helmet that is near
_has_nearby_helmet_or_none(rider, helmets, dist) ==
    \/ helmets = <<>>
    \/ \E i \in 1..Len(helmets) :
          CloserThan(_get_bbox_center(rider.bbox), _get_bbox_center(helmets[i].bbox), dist)
_has_nearby_helmet(rider, helmets, dist) ==
    \E i \in 1..Len(helmets) :
        CloserThan(_get_bbox_center(rider.bbox), _get_bbox_center(helmets[i].bbox), dist)

\* lines 54-59
NoHelmet(rider) ==
    [type |-> "no_helmet", confidence |-> rider.confidence, bbox |-> rider.bbox,
     rider_detection |-> rider]

\* lines 51-59: one pass over the riders, in order
RECURSIVE CheckRiders(_, _, _)
CheckRiders(riders, helmets, dist) ==
    IF riders = <<>> THEN <<>>
    ELSE (IF ~_has_nearby_helmet(Head(riders), helmets, dist)
            THEN <<NoHelmet(Head(riders))>> ELSE <<>>)
         \o CheckRiders(Tail(riders), helmets, dist)

\* lines 33-61
_check_violations_or_equal(dets, minc, dist) ==
    LET kept == SelectSeq(dets, LAMBDA d : ~BelowThreshold(d, minc))
        riders == SelectSeq(kept, IsRider)
        helmets == SelectSeq(kept, LAMBDA d : ~IsRider(d) /\ IsHelmet(d))
    IN IF Len(riders) >= Len(helmets)
         THEN CheckRiders(riders, helmets, dist)
         ELSE <<>>
_check_violations(dets, minc, dist) ==
    LET kept == SelectSeq(dets, LAMBDA d : ~BelowThreshold(d, minc))
        riders == SelectSeq(kept, IsRider)
        helmets == SelectSeq(kept, LAMBDA d : ~IsRider(d) /\ IsHelmet(d))
    IN IF Len(riders) > Len(helmets)
         THEN CheckRiders(riders, helmets, dist)
         ELSE <<>>

InitA ==
    /\ detections \in Frames
    /\ min_confidence \in Thresholds
    /\ max_helmet_distance \in Distances
    /\ violations = <<>>
    /\ apc = "frame"

\* lines 16-31, the call of line 22
process_frame ==
    /\ apc = "frame"
    /\ violations' = _check_violations(detections, min_confidence, max_helmet_distance)
    /\ apc' = "done"
    /\ UNCHANGED <<detections, min_confidence, max_helmet_distance>>
    /\ UNCHANGED <<dvars, bvars, transport, nvars, ovars>>

AssocInit == InitA /\ InitD /\ transport = "any" /\ IdleB /\ IdleN /\ IdleO

AssocNext == process_frame

AssocSpec == AssocInit /\ [][AssocNext]_vars

\* The frames of the worked examples: a rider centered at (100,100), a
\* helmet-sized box centered at (105,105), a box centered at (300,100), with
\* MAX_HELMET_DISTANCE = 50.
RiderBox == <<90, 90, 20, 20>>
NearBox == <<100, 100, 10, 10>>
FarBox == <<290, 90, 20, 20>>

ScenarioDetections ==
    [class_name : Classes, confidence : Confidences, bbox : {RiderBox, NearBox, FarBox}]

ScenarioFrames == UNION {[1..n -> ScenarioDetections] : n \in 0..MaxDets}

InitS ==
    /\ detections \in ScenarioFrames
    /\ min_confidence \in Thresholds
    /\ max_helmet_distance \in {50}
    /\ violations = <<>>
    /\ apc = "frame"

ScenarioInit == InitS /\ InitD /\ transport = "any" /\ IdleB /\ IdleN /\ IdleO

ScenarioSpec == ScenarioInit /\ [][AssocNext]_vars

\* ------------------------------------------------------------- suppression
\* A row of the raw array after lines 50-53: center and size in pixels
\* (scaled by the image shape and truncated), the confidence detection[4] in
\* percent, the class scores detection[5:].
\* Boxes of the rows: corners x = 0, 3, 6 with size 10 x 10 overlap their
\* neighbour by 70/130 and the one after by 40/160; EmptyBox has no area.
RawBoxes == {<<5, 5, 10, 10>>, <<8, 5, 10, 10>>, <<11, 5, 10, 10>>}
EmptyBox == <<40, 40, 0, 0>>
RawConfidences == {50, 60, 70}
RawClassScores == {<<9, 1>>, <<1, 9>>}
ConfidenceThresholds == {50, 60}

RawRows ==
    [box : RawBoxes, confidence : RawConfidences, class_scores : RawClassScores]
        \cup [box : {EmptyBox}, confidence : {70}, class_scores : RawClassScores]

RawArrays == UNION {[1..n -> RawRows] : n \in 0..MaxRaw}

\* line 48: if confidence > self.confidence_threshold
PassesConfidence(confidence, threshold) == confidence > threshold

\* line 49: np.argmax returns the first index of the maximum (0-based)
ArgMax(scores) ==
    (CHOOSE i \in 1..Len(scores) :
        /\ \A k \in 1..Len(scores) : scores[k] <= scores[i]
        /\ \A k \in 1..(i - 1) : scores[k] < scores[i]) - 1

\* int(n / 2): Python's int() truncates toward zero
IntHalf(n) == IF n >= 0 THEN n \div 2 ELSE -((-n) \div 2)

\* lines 56-57: x = int(center_x - width/2), y = int(center_y - height/2)
Corner(center, size) == IntHalf(2 * center - size)

\* lines 49-63: the dict appended for a row
ProcessRow(row) ==
    [class_id |-> ArgMax(row.class_scores),
     confidence |-> row.confidence,
     bbox |-> <<Corner(row.box[1], row.box[3]), Corner(row.box[2], row.box[4]),
                row.box[3], row.box[4]>>]

\* lines 46-63: the loop that builds processed_detections
RECURSIVE ProcessRows(_, _)
ProcessRows(rows, threshold) ==
    IF rows = <<>> THEN <<>>
    ELSE (IF PassesConfidence(Head(rows).confidence, threshold)
            THEN <<ProcessRow(Head(rows))>> ELSE <<>>)
         \o ProcessRows(Tail(rows), threshold)

\* cv2.dnn.NMSBoxes, called at lines 77-82.  Boxes are rectangles
\* <<x, y, width, height>>.
Min(a, b) == IF a <= b THEN a ELSE b
Max(a, b) == IF a >= b THEN a ELSE b

Area(b) == b[3] * b[4]

\* the area of the rectangle a & b
Inter(a, b) ==
    LET w == Min(a[1] + a[3], b[1] + b[3]) - Max(a[1], b[1])
        h == Min(a[2] + a[4], b[2] + b[4]) - Max(a[2], b[2])
    IN IF w > 0 /\ h > 0 THEN w * h ELSE 0

\* overlap > t, overlap being 1 - jaccardDistance(a, b): intersection over
\* union, and 1 for two rectangles without area.
Overlaps(a, b, t) ==
    IF Area(a) + Area(b) = 0
      THEN 100 > t
      ELSE 100 * Inter(a, b) > t * (Area(a) + Area(b) - Inter(a, b))

\* The order of the candidates: a stable sort by descending score, so that
\* of two equal scores the lower index comes first.
BeforeAscending(scores, i, k) == scores[i] < scores[k] \/ (scores[i] = scores[k] /\ i < k)
Before(scores, i, k) == scores[i] > scores[k] \/ (scores[i] = scores[k] /\ i < k)

RECURSIVE Order(_, _)
Order(scores, S) ==
    IF S = {} THEN <<>>
    ELSE LET i == CHOOSE i \in S : \A k \in S \ {i} : Before(scores, i, k)
         IN <<i>> \o Order(scores, S \ {i})

\* A candidate is kept when its overlap with every box kept so far is at
\* most the threshold.
RECURSIVE Greedy(_, _, _, _)
Greedy(boxes, order, keep, t) ==
    IF order = <<>> THEN keep
    ELSE LET i == Head(order)
             ok == \A k \in 1..Len(keep) : ~Overlaps(boxes[i], boxes[keep[k]], t)
         IN Greedy(boxes, Tail(order), IF ok THEN Append(keep, i) ELSE keep, t)

\* Candidates are the boxes whose score is above score_threshold; the result
\* is the list of kept indexes (here 1-based) in the order they were kept.
NMSBoxes(boxes, scores, score_threshold, nms_thr) ==
    Greedy(boxes,
           Order(scores, {i \in 1..Len(scores) : scores[i] > score_threshold}),
           <<>>, nms_thr)

\* lines 73-82
NMSIndices(dets, score_threshold, nms_thr) ==
    NMSBoxes([i \in 1..Len(dets) |-> dets[i].bbox],
             [i \in 1..Len(dets) |-> dets[i].confidence],
             score_threshold, nms_thr)

\* line 84: [detections[i] for i in indices]
PickOffByOne(dets, idx) == [k \in 1..Len(idx) |-> dets[(idx[k] % Len(dets)) + 1]]
Pick(dets, idx) == [k \in 1..Len(idx) |-> dets[idx[k]]]

\* lines 67-84
_apply_nms(dets, score_threshold, nms_thr) ==
    IF dets = <<>> THEN <<>>
    ELSE Pick(dets, NMSIndices(dets, score_threshold, nms_thr))

InitN ==
    /\ raw \in RawArrays
    /\ confidence_threshold \in ConfidenceThresholds
    /\ nms_threshold = 40
    /\ processed = <<>>
    /\ indices = <<>>
    /\ output = <<>>
    /\ again = <<>>
    /\ npc = "raw"

\* lines 38-65
postprocess_detections ==
    /\ npc = "raw"
    /\ processed' = ProcessRows(raw, confidence_threshold)
    /\ indices' = NMSIndices(processed', confidence_threshold, nms_threshold)
    /\ output' = _apply_nms(processed', confidence_threshold, nms_threshold)
    /\ npc' = "suppressed"
    /\ UNCHANGED <<raw, confidence_threshold, nms_threshold, again>>
    /\ UNCHANGED <<dvars, bvars, transport, avars, ovars>>

\* _apply_nms called on the list postprocess_detections returned
ApplyAgain ==
    /\ npc = "suppressed"
    /\ again' = _apply_nms(output, confidence_threshold, nms_threshold)
    /\ npc' = "twice"
    /\ UNCHANGED <<raw, confidence_threshold, nms_threshold, processed, indices, output>>
    /\ UNCHANGED <<dvars, bvars, transport, avars, ovars>>

NMSInit == InitN /\ InitD /\ transport = "any" /\ IdleB /\ IdleA /\ IdleO

NMSNext == postprocess_detections \/ ApplyAgain

NMSSpec == NMSInit /\ [][NMSNext]_vars

\* ---------------------------------------------------------- VideoProcessor
\* A frame is <<"raw", n>>; preprocess (lines 24-38: resize, normalise,
\* swap channels) turns it into the processed frame <<"processed", n>>.
VideoFrames == {<<"raw", 1>>, <<"raw", 2>>}
FrameSkips == {0, 1, 2}
BufferSizes == {0, 1, 2}

None == <<"none", 0>>

preprocess(f) == <<"processed", f[2]>>

\* line 100: if self.frame_skip and self.frame_count % (self.frame_skip + 1) != 0
SkippedModSkip(skip, count) == skip # 0 /\ count % skip # 0
Skipped(skip, count) == skip # 0 /\ count % (skip + 1) # 0

\* lines 116-118: append, then pop(0) if longer than buffer_size
AppendEvictNewest(buf, f, size) ==
    IF Len(buf) + 1 > size THEN buf ELSE Append(buf, f)
AppendEvict(buf, f, size) ==
    IF Len(buf) + 1 > size THEN Tail(Append(buf, f)) ELSE Append(buf, f)

\* calls made so far: those of process and the direct ones of update_buffer
VideoCalls ==
    Len(returns) + Len(buffered)
        - Cardinality({n \in 1..Len(returns) : returns[n].result # None})

InitP ==
    /\ frame_skip \in FrameSkips
    /\ buffer_size \in BufferSizes
    /\ frame_buffer = <<>>
    /\ frame_count = 0
    /\ buffered = <<>>
    /\ returns = <<>>

\* lines 95-112
process(f) ==
    /\ VideoCalls < MaxFrames
    /\ frame_count' = frame_count + 1
    /\ IF Skipped(frame_skip, frame_count')
         THEN /\ returns' = Append(returns, [frame |-> f, result |-> None])
              /\ UNCHANGED <<frame_buffer, buffered>>
         ELSE /\ frame_buffer' = AppendEvict(frame_buffer, preprocess(f), buffer_size)
              /\ buffered' = Append(buffered, preprocess(f))
              /\ returns' = Append(returns, [frame |-> f, result |-> preprocess(f)])
    /\ UNCHANGED <<frame_skip, buffer_size>>
    /\ UNCHANGED <<dvars, bvars, transport, avars, nvars, lvars, ivars>>

\* lines 114-118, called from outside process
update_buffer(f) ==
    /\ VideoCalls < MaxFrames
    /\ frame_buffer' = AppendEvict(frame_buffer, f, buffer_size)
    /\ buffered' = Append(buffered, f)
    /\ UNCHANGED <<frame_skip, buffer_size, frame_count, returns>>
    /\ UNCHANGED <<dvars, bvars, transport, avars, nvars, lvars, ivars>>

VideoInit == InitP /\ InitD /\ transport = "any" /\ IdleB /\ IdleA /\ IdleN /\ IdleL /\ IdleI

VideoNext ==
    \/ \E f \in VideoFrames : process(f)
    \/ \E f \in VideoFrames : update_buffer(f)

VideoSpec == VideoInit /\ [][VideoNext]_vars

\* ---------------------------------------------------------- DatabaseManager
\* Every method opens its own connection (sqlite3.connect) and runs one
\* transaction.  SQLite lets one connection write at a time: a statement
\* that writes waits until no other connection holds the write lock.
Plates == {"P1", "P2"}
MarkIds == 1..(MaxRecords + 1)

LockFreeAlways(l) == TRUE
LockFree(l) == l = 0

\* lines 97-101: UPDATE violations SET processed = TRUE WHERE id = ?
MarkProcessedAll(rows, id) == [i \in 1..Len(rows) |-> [rows[i] EXCEPT !.processed = TRUE]]
MarkProcessed(rows, id) ==
    [i \in 1..Len(rows) |->
        IF rows[i].id = id THEN [rows[i] EXCEPT !.processed = TRUE] ELSE rows[i]]

\* lines 83-92: the rows with the given processed flag whose license plate
\* has an owner (JOIN vehicle_owners)
get_violations(flag) ==
    {ledger[i] : i \in {k \in 1..Len(ledger) :
        ledger[k].processed = flag /\ ledger[k].license_plate \in owners}}

\* lines 40-54: INSERT OR REPLACE INTO vehicle_owners, commit
add_vehicle_owner(plate) ==
    /\ LockFree(dblock)
    /\ owners' = owners \cup {plate}
    /\ last_marked' = 0
    /\ UNCHANGED <<ledger, dblock, lpc, lrow, ids, lcalls>>
    /\ UNCHANGED <<dvars, bvars, transport, avars, nvars, pvars, ivars>>

\* lines 66-79: connect, INSERT INTO violations (the id is AUTOINCREMENT:
\* one more than the largest id of the table; processed takes its default
\* FALSE), cursor.lastrowid
RecordInsert(t, plate) ==
    /\ lpc[t] = "idle"
    /\ lcalls < MaxRecords
    /\ LockFree(dblock)
    /\ dblock' = t
    /\ lrow' = [lrow EXCEPT ![t] = [id |-> Len(ledger) + 1, license_plate |-> plate]]
    /\ lpc' = [lpc EXCEPT ![t] = "commit"]
    /\ lcalls' = lcalls + 1
    /\ last_marked' = 0
    /\ UNCHANGED <<owners, ledger, ids>>
    /\ UNCHANGED <<dvars, bvars, transport, avars, nvars, pvars, ivars>>

\* lines 80-81: conn.commit(), return violation_id
RecordCommit(t) ==
    /\ lpc[t] = "commit"
    /\ ledger' = Append(ledger, [id |-> lrow[t].id, license_plate |-> lrow[t].license_plate,
                                 processed |-> FALSE])
    /\ ids' = Append(ids, [id |-> lrow[t].id, license_plate |-> lrow[t].license_plate,
                           thread |-> t])
    /\ dblock' = 0
    /\ lrow' = [lrow EXCEPT ![t] = NoRow]
    /\ lpc' = [lpc EXCEPT ![t] = "idle"]
    /\ last_marked' = 0
    /\ UNCHANGED <<owners, lcalls>>
    /\ UNCHANGED <<dvars, bvars, transport, avars, nvars, pvars, ivars>>

\* lines 94-102
mark_violation_processed(violation_id) ==
    /\ LockFree(dblock)
    /\ ledger' = MarkProcessed(ledger, violation_id)
    /\ last_marked' = violation_id
    /\ UNCHANGED <<owners, dblock, lpc, lrow, ids, lcalls>>
    /\ UNCHANGED <<dvars, bvars, transport, avars, nvars, pvars, ivars>>

LedgerInit == IdleL /\ InitD /\ transport = "any" /\ IdleB /\ IdleA /\ IdleN /\ IdleP /\ IdleI

LedgerNext ==
    \/ \E plate \in Plates : add_vehicle_owner(plate)
    \/ \E t \in Writers, plate \in Plates : RecordInsert(t, plate)
    \/ \E t \in Writers : RecordCommit(t)
    \/ \E id \in MarkIds : mark_violation_processed(id)

LedgerSpec == LedgerInit /\ [][LedgerNext]_vars

\* ------------------------------------------- several NotificationManagers
\* Every attribute __init__ sets is an attribute of the instance: the queue
\* (line 60), the retry delays (line 61) and the worker thread (lines 64-67)
\* are made anew for each.  QueueOf is the queue object that
\* self.notification_queue names in instance `self`.
QueueOfShared(self) == 1
QueueOf(self) == self

\* send_violation_notice / send_fine_receipt on instance `self`: build the
\* dict with retry_count 0 and put it (lines 93-101, 177-185).
InstEnqueue(self) ==
    /\ icalls < MaxCalls
    /\ LET q == QueueOf(self)
       IN /\ ijobs' = [ijobs EXCEPT ![q] = Append(@, [retry_count |-> 0])]
          /\ iqueue' = [iqueue EXCEPT ![q] = QueuePut(@, Len(ijobs[q]) + 1)]
    /\ icalls' = icalls + 1
    /\ iactor' = self
    /\ UNCHANGED <<iwpc, iheld>>
    /\ UNCHANGED <<dvars, bvars, transport, avars, nvars, pvars, lvars>>

\* Lines 130-131 in the worker of instance `self`.
InstPoll(self) ==
    /\ iwpc[self] = "poll"
    /\ LET q == QueueOf(self)
       IN /\ iqueue[q] # <<>>
          /\ iheld' = [iheld EXCEPT ![self] = Head(iqueue[q])]
          /\ iqueue' = [iqueue EXCEPT ![q] = Tail(@)]
    /\ iwpc' = [iwpc EXCEPT ![self] = "send"]
    /\ iactor' = self
    /\ UNCHANGED <<ijobs, icalls>>
    /\ UNCHANGED <<dvars, bvars, transport, avars, nvars, pvars, lvars>>

\* Lines 132-137 (and the sleep of line 141 when nothing is put back).
InstSend(self, success) ==
    /\ iwpc[self] = "send"
    /\ LET q == QueueOf(self)
           j == iheld[self]
           rc == ijobs[q][j].retry_count
       IN IF ShouldRetry(success, rc)
            THEN /\ ijobs' = [ijobs EXCEPT ![q][j].retry_count = NextRetryCount(rc)]
                 /\ iwpc' = [iwpc EXCEPT ![self] = "put"]
                 /\ UNCHANGED iheld
            ELSE /\ iheld' = [iheld EXCEPT ![self] = 0]
                 /\ iwpc' = [iwpc EXCEPT ![self] = "poll"]
                 /\ UNCHANGED ijobs
    /\ iactor' = self
    /\ UNCHANGED <<iqueue, icalls>>
    /\ UNCHANGED <<dvars, bvars, transport, avars, nvars, pvars, lvars>>

\* Lines 138-141: sleep the retry delay, put the dict back, sleep 1.
InstPut(self) ==
    /\ iwpc[self] = "put"
    /\ iqueue' = [iqueue EXCEPT ![QueueOf(self)] = QueuePut(@, iheld[self])]
    /\ iheld' = [iheld EXCEPT ![self] = 0]
    /\ iwpc' = [iwpc EXCEPT ![self] = "poll"]
    /\ iactor' = self
    /\ UNCHANGED <<ijobs, icalls>>
    /\ UNCHANGED <<dvars, bvars, transport, avars, nvars, pvars, lvars>>

InstInit == IdleI /\ InitD /\ transport = "any" /\ IdleB /\ IdleA /\ IdleN /\ IdleP /\ IdleL

InstNext ==
    \/ \E i \in Instances : InstEnqueue(i)
    \/ \E i \in Instances : InstPoll(i)
    \/ \E i \in Instances, s \in BOOLEAN : InstSend(i, s)
    \/ \E i \in Instances : InstPut(i)

InstSpec == InstInit /\ [][InstNext]_vars

\* The end-to-end frame: a helmet centered at (100,100) and riders centered
\* at (110,100), (160,100) and (300,100), that is 10, 60 and 200 away, in any
\* order, all at confidence 60 with MIN_CONFIDENCE 50 and
\* MAX_HELMET_DISTANCE 50.
HelmetBox == <<95, 95, 10, 10>>
Rider10Box == <<100, 90, 20, 20>>
Rider60Box == <<150, 90, 20, 20>>
Rider200Box == <<290, 90, 20, 20>>

E2EDetections ==
    {[class_name |-> "helmet", confidence |-> 60, bbox |-> HelmetBox]}
        \cup {[class_name |-> "rider", confidence |-> 60, bbox |-> b] :
                 b \in {Rider10Box, Rider60Box, Rider200Box}}

E2EFrames ==
    {f \in [1..4 -> E2EDetections] : \A i, k \in 1..4 : i # k => f[i] # f[k]}

InitE ==
    /\ detections \in E2EFrames
    /\ min_confidence = 50
    /\ max_helmet_distance = 50
    /\ violations = <<>>
    /\ apc = "frame"

\* The payload handed to the notifier for a violation: the violation with
\* the owner's address under 'owner_email'.
Payload(v) == "valid"

\* The violations of the frame go to send_batch_notifications, one payload
\* each, in order.
NotifyViolations ==
    /\ apc = "done"
    /\ send_batch_notifications([i \in 1..Len(violations) |-> Payload(violations[i])])

E2EInit == InitE /\ InitD /\ transport = "fail_once" /\ IdleB /\ IdleN /\ IdleO

E2ENext ==
    \/ process_frame
    \/ NotifyViolations
    \/ BatchPrepare
    \/ BatchPut
    \/ BatchReturn
    \/ WorkerPoll
    \/ \E s \in BOOLEAN : WorkerSend(s)
    \/ WorkerSleepRetry
    \/ WorkerPut
    \/ WorkerSleep1

E2ESpec == E2EInit /\ [][E2ENext]_vars

\* ------------------------------------------------------ dispatcher claims
Terminal(j) == Status(j) \in {"SENT", "DEAD"}

Waiting(j) == notification = j /\ wpc \in {"sleep_retry", "put"}

\* The job's retry delay, counted from its last failure, has elapsed.
Due(j) ==
    \/ jobs[j].retry_count = 0
    \/ now >= log[j].failedAt + retry_delays[jobs[j].retry_count]

Drained == queue = <<>> /\ notification = 0 /\ \A p \in Producers : ppc[p] = "idle"

\* C1, as stated: retry_count never exceeds the maximum, and a job whose
\* retry_count has reached the maximum is DEAD and not on the queue.
C1_ExhaustedIsDead ==
    \A j \in JobIds :
        /\ jobs[j].retry_count <= MaxRetries
        /\ jobs[j].retry_count = MaxRetries => Status(j) = "DEAD" /\ ~InQueue(j)

\* C1, amended: retry_count never exceeds the maximum; a job is discarded
\* (DEAD) only by a failed send made with retry_count already at the
\* maximum, which is its (maximum + 1)-th send; a DEAD job is neither on the
\* queue nor held by the worker nor delivered.
C1_RetryBudget ==
    \A j \in JobIds :
        /\ jobs[j].retry_count <= MaxRetries
        /\ j \in dropped =>
             /\ jobs[j].retry_count = MaxRetries
             /\ log[j].sends = MaxRetries + 1
             /\ Status(j) = "DEAD"

C1_Witness ==
    \E j \in dropped : \E k \in JobIds : k # j /\ InQueue(k) /\ jobs[k].retry_count = MaxRetries

\* C2, as stated: a job whose every send fails is DEAD after exactly
\* MaxRetries sends, the waits between them being the schedule.
C2_DeadAfterMaxRetries ==
    \A j \in dropped : log[j].sends = MaxRetries /\ log[j].waits = retry_delays

\* C2, amended: a job whose every send fails is DEAD after exactly
\* MaxRetries + 1 sends (the first attempt and MaxRetries retries) and not
\* before, and the waits between its failures and its returns to the queue
\* are the entries of retry_delays in order.
C2_DeadAfterAllRetries ==
    \A j \in JobIds :
        /\ j \in dropped <=> (log[j].delivered = 0 /\ log[j].sends = MaxRetries + 1)
        /\ j \in dropped => log[j].waits = retry_delays

C2_Witness ==
    \E j \in dropped : log[j].waits = retry_delays /\ now = 5 + 15 + 30 + 3 * PollSleep

\* C3: every accepted payload is one job held in exactly one place (on the
\* queue once, with the worker, delivered once, or discarded); when the
\* queue is drained and no producer is inside a call, the jobs that are SENT
\* or DEAD are exactly the accepted payloads.
Places(j) ==
    SeqCount(queue, j) + (IF notification = j THEN 1 ELSE 0) + log[j].delivered
        + (IF j \in dropped THEN 1 ELSE 0)

C3_NoLossNoDuplicate ==
    /\ Len(jobs) = accepted
    /\ calls = accepted + rejected + Cardinality({p \in Producers : ppc[p] = "put"})
    /\ \A j \in JobIds : Places(j) = 1
    /\ Drained =>
         /\ \A j \in JobIds : Terminal(j)
         /\ Cardinality({j \in JobIds : Terminal(j)}) = accepted

C3_Witness ==
    /\ Drained
    /\ accepted >= 2
    /\ \E j, k \in JobIds : Status(j) = "SENT" /\ Status(k) = "DEAD"

\* C4, as stated: every DEAD job is reported to the caller; the one place
\* the caller can read failures from is get_notification_stats.
C4_DeadIsSurfaced ==
    get_notification_stats.failed_notifications = Cardinality(dropped)

\* C5: every change of a job's status is one of QUEUED -> SENDING,
\* SENDING -> SENT, SENDING -> RETRY_SCHEDULED, SENDING -> DEAD (only with
\* retry_count at the maximum), RETRY_SCHEDULED -> QUEUED (only once the
\* delay has elapsed); a job is created QUEUED; SENT and DEAD are left by no
\* transition.
Transition(j, a, b) ==
    \/ a = "QUEUED" /\ b = "SENDING"
    \/ a = "SENDING" /\ b = "SENT"
    \/ a = "SENDING" /\ b = "RETRY_SCHEDULED"
    \/ a = "SENDING" /\ b = "DEAD" /\ jobs[j].retry_count = MaxRetries
    \/ a = "RETRY_SCHEDULED" /\ b = "QUEUED" /\ Due(j)'

C5_StateMachine ==
    [][\A j \in 1..Len(jobs') :
         IF j > Len(jobs)
           THEN Status(j)' = "QUEUED"
           ELSE Status(j) # Status(j)' => Transition(j, Status(j), Status(j)')]_vars

C5_Witness ==
    /\ \E j \in JobIds : Status(j) = "QUEUED" /\ jobs[j].retry_count = 2
    /\ \E k \in JobIds : Status(k) = "SENT"

\* C6: a job on the queue is due; every dequeue of a job is followed by
\* exactly one _send_email call for it; a job whose send succeeded is SENT,
\* delivered once, and _send_email is not called for it again.
C6_OneSendPerDequeue ==
    /\ [](\A j \in JobIds :
            /\ InQueue(j) => Due(j)
            /\ log[j].sends = log[j].dequeues - (IF Status(j) = "SENDING" THEN 1 ELSE 0)
            /\ log[j].delivered > 0 => log[j].delivered = 1 /\ Status(j) = "SENT")
    /\ [][\A j \in JobIds : log[j].delivered > 0 => log'[j].sends = log[j].sends]_vars

C6_Witness ==
    \E j \in JobIds : Status(j) = "SENT" /\ log[j].sends = 2 /\ wpc = "send"

\* C7: every failed send made with retry_count below the maximum adds one
\* to retry_count and holds the job for retry_delays[retry_count - 1]
\* (Python index, retry_count after the increment) before it is put back:
\* the k-th failure is followed by the k-th entry; the entries do not
\* decrease.
C7_BackoffSchedule ==
    /\ \A i, k \in 1..Len(retry_delays) : i <= k => retry_delays[i] <= retry_delays[k]
    /\ \A j \in JobIds :
         LET rc == jobs[j].retry_count
             failures == log[j].sends - log[j].delivered
         IN /\ rc = IF failures <= MaxRetries THEN failures ELSE MaxRetries
            /\ log[j].waits = SubSeq(retry_delays, 1, rc - (IF Waiting(j) THEN 1 ELSE 0))
            /\ Waiting(j) => retry_delay = retry_delays[rc]
            /\ (notification = j /\ wpc = "put") => now = log[j].failedAt + retry_delays[rc]

C7_Witness ==
    \E j \in JobIds : notification = j /\ wpc = "put" /\ jobs[j].retry_count = 2
                      /\ log[j].waits = <<5>>

\* C17, as stated: a producer call never waits for the worker or for
\* Transport (its put can be taken in every state), and it returns False
\* only when the queue is full.
C17_FailsOnlyWhenSaturated ==
    /\ [](\A p \in Producers : ppc[p] = "put" => ENABLED ProducerPut(p))
    /\ [][rejected' > rejected => QueueFull(queue)]_vars

\* C17, amended: a producer call never waits for the worker or for
\* Transport (its put can be taken in every state); the queue has no
\* capacity, so no call fails for saturation; a call returns False only when
\* building the message raises (the payload lacks the recipient key), and
\* then nothing is put on the queue; a call that returns True has put exactly
\* one new job at the tail of the queue.
C17_FailsOnlyOnBadPayload ==
    /\ [](\A p \in Producers : ppc[p] = "put" => ENABLED ProducerPut(p))
    /\ [](rejects \subseteq {"missing"})
    /\ [][rejected' > rejected =>
            /\ "missing" \in rejects'
            /\ queue' = queue /\ jobs' = jobs /\ ppc' = ppc /\ wpc' = wpc]_vars
    /\ [][accepted' > accepted =>
            /\ accepted' = accepted + 1
            /\ Len(jobs') = Len(jobs) + 1
            /\ queue' = Append(queue, Len(jobs'))
            /\ wpc' = wpc /\ log' = Append(log, NewLog)]_vars

C17_Witness ==
    /\ rejected = 1
    /\ accepted = 1
    /\ wpc = "sleep_retry"
    /\ notification = 1
    /\ queue = <<>>

\* C18, as stated: a payload whose recipient is missing or is no address is
\* refused by the producer call: no job on record (queued, held by the
\* worker, sent or discarded) has such a recipient, and none is being put.
C18_BadRecipientRejected ==
    /\ \A j \in JobIds : jobs[j].recipient = "valid"
    /\ \A p \in Producers : ppc[p] = "put" => parg[p].recipient = "valid"

\* C20, as stated: get_notification_stats gives the number of jobs that are
\* SENT, the number that are DEAD and the number that are on the queue.
C20_StatsExact ==
    /\ get_notification_stats.notifications_sent =
           Cardinality({j \in JobIds : Status(j) = "SENT"})
    /\ get_notification_stats.failed_notifications =
           Cardinality({j \in JobIds : Status(j) = "DEAD"})
    /\ get_notification_stats.queue_size =
           Cardinality({j \in JobIds : Status(j) = "QUEUED"})

\* C19: in a batch every payload handled so far was handled on its own: a
\* payload without recipient was refused and made no job, every other
\* payload, before or after a refused one, became exactly one job with its
\* recipient, and that job is still in exactly one place (queued, with the
\* worker, sent or discarded: never taken back); the call returns only
\* after every payload has been handled, and makes no other job.
Handled == 1..Len(bjob)

C19_BatchIndependent ==
    /\ Len(bjob) <= Len(payloads)
    /\ bpc \in {"loop", "put"} => Len(bjob) = bidx - 1
    /\ bpc = "done" => Len(bjob) = Len(payloads)
    /\ \A i \in Handled :
          IF payloads[i] = "missing"
            THEN bjob[i] = 0
            ELSE /\ bjob[i] \in JobIds
                 /\ jobs[bjob[i]].recipient = payloads[i]
                 /\ Places(bjob[i]) = 1
                 /\ \A k \in Handled : k # i => bjob[k] # bjob[i]
    /\ Len(jobs) = Cardinality({i \in Handled : bjob[i] # 0})

C19_Witness ==
    /\ bpc = "done"
    /\ payloads = <<"valid", "missing", "valid">>
    /\ bjob = <<1, 0, 2>>
    /\ InQueue(1)
    /\ InQueue(2)

\* ----------------------------------------------------- association claims
Range(s) == {s[i] : i \in 1..Len(s)}

\* The rider and helmet sets of the rule: class and confidence at or above
\* min_confidence.
RiderSet == {d \in Range(detections) : d.class_name = "rider" /\ d.confidence >= min_confidence}

HelmetSet == {d \in Range(detections) : d.class_name = "helmet" /\ d.confidence >= min_confidence}

Compliant(r) ==
    \E h \in HelmetSet :
        CloserThan(_get_bbox_center(r.bbox), _get_bbox_center(h.bbox), max_helmet_distance)

\* C8, as stated: a rider is compliant iff some helmet is strictly nearer
\* than max_helmet_distance; each non-compliant rider in the list yields
\* exactly one no_helmet violation with its own confidence and bbox, and a
\* compliant rider yields none; nothing else yields a violation.
C8_OneViolationPerUnmatchedRider ==
    apc = "done" =>
        /\ \A r \in RiderSet :
             SeqCount(violations, NoHelmet(r)) =
                 IF Compliant(r) THEN 0 ELSE SeqCount(detections, r)
        /\ \A v \in Range(violations) : \E r \in RiderSet : v = NoHelmet(r)

\* C9: every violation comes from a detection at or above min_confidence,
\* and the result is the one obtained from the list with the detections
\* below min_confidence removed: they make no rider compliant and change
\* nothing else.
C9_BelowThresholdIgnored ==
    apc = "done" =>
        /\ \A v \in Range(violations) :
             v.confidence >= min_confidence /\ v.rider_detection.confidence >= min_confidence
        /\ violations =
             _check_violations(SelectSeq(detections, LAMBDA d : d.confidence >= min_confidence),
                               min_confidence, max_helmet_distance)

C9_Witness ==
    /\ apc = "done"
    /\ violations # <<>>
    /\ \E d \in Range(detections) : d.class_name = "rider" /\ d.confidence < min_confidence
    /\ \E v \in Range(violations) : \E h \in Range(detections) :
          /\ h.class_name = "helmet"
          /\ h.confidence < min_confidence
          /\ h.bbox = v.bbox

\* C10: a list with no rider at or above min_confidence yields no violation.
C10_NoRiderNoViolation ==
    (apc = "done" /\ RiderSet = {}) => violations = <<>>

C10_Witness ==
    /\ apc = "done"
    /\ RiderSet = {}
    /\ HelmetSet # {}
    /\ \E d \in Range(detections) : d.class_name = "motorcycle" /\ d.confidence >= min_confidence
    /\ \E d \in Range(detections) : d.class_name = "rider"

\* C11: one rider centered at (100,100) and one helmet centered at (105,105),
\* both at or above min_confidence, with max_helmet_distance 50 give no
\* violation; with no helmet at or above min_confidence, every rider at or
\* above min_confidence gives exactly one no_helmet violation with its own
\* bbox and confidence, and nothing else gives one.
C11_WorkedExamples ==
    apc = "done" =>
        /\ ( /\ Len(detections) = 2
             /\ \E r, h \in Range(detections) :
                  /\ r \in RiderSet /\ r.bbox = RiderBox
                  /\ h \in HelmetSet /\ h.bbox = NearBox
             /\ max_helmet_distance = 50 )
           => violations = <<>>
        /\ HelmetSet = {} =>
             /\ \A r \in RiderSet : SeqCount(violations, NoHelmet(r)) = SeqCount(detections, r)
             /\ \A v \in Range(violations) : \E r \in RiderSet : v = NoHelmet(r)

C11_Witness ==
    /\ apc = "done"
    /\ HelmetSet = {}
    /\ Len(violations) = 1
    /\ violations[1].bbox = RiderBox
    /\ \E h \in Range(detections) : h.class_name = "helmet" /\ h.bbox = NearBox

\* The batch call has returned, the queue is empty and the worker holds no job.
BatchDrained == bpc = "done" /\ queue = <<>> /\ notification = 0

ViolationBoxes == {violations[i].bbox : i \in 1..Len(violations)}

\* The part of C12 that the statement and its amendment share: the frame
\* gives exactly the two violations of the riders at 60 and 200; the batch
\* call makes exactly one job per violation, each held in one place.
E2EIntake ==
    /\ apc = "done" => Len(violations) = 2 /\ ViolationBoxes = {Rider60Box, Rider200Box}
    /\ Len(jobs) <= Len(violations)
    /\ \A j \in JobIds : Places(j) = 1
    /\ bpc = "done" => Len(jobs) = 2 /\ results = [success |-> 2, failed |-> 0, queued |-> 2]
    /\ BatchDrained => \A j \in JobIds : Status(j) = "SENT"

Emitted == {indices[k] : k \in 1..Len(indices)}

\* processed[k] is considered before processed[i]: higher confidence, or the
\* same confidence and a lower index.
Precedes(k, i) ==
    \/ processed[k].confidence > processed[i].confidence
    \/ processed[k].confidence = processed[i].confidence /\ k < i

OverlapExceeds(i, k) == Overlaps(processed[i].bbox, processed[k].bbox, nms_threshold)

\* C13, as stated: suppression is per class: every detection above the
\* threshold that is not in the output overlaps an emitted detection of its
\* own class by more than nms_threshold; none is removed because of a
\* detection of a different class.
C13_PerClass ==
    npc # "raw" =>
        \A i \in 1..Len(processed) :
            i \notin Emitted =>
                \E k \in Emitted :
                    /\ processed[k].class_id = processed[i].class_id
                    /\ OverlapExceeds(i, k)

\* C14, as stated: nothing below the threshold reaches suppression, every
\* detection of the output has confidence at or above the threshold, and a
\* row whose confidence is not below the threshold is missing from the
\* output only if it overlaps an emitted detection by more than
\* nms_threshold.
C14_ThresholdFilter ==
    npc # "raw" =>
        /\ \A d \in Range(processed) : d.confidence >= confidence_threshold
        /\ \A d \in Range(output) : d.confidence >= confidence_threshold
        /\ \A r \in 1..Len(raw) :
              (raw[r].confidence >= confidence_threshold
                    /\ ProcessRow(raw[r]) \notin Range(output)) =>
                 \E k \in Emitted :
                     Overlaps(ProcessRow(raw[r]).bbox, processed[k].bbox, nms_threshold)

C16_Idempotent ==
    npc = "twice" => again = output

C16_Witness ==
    /\ npc = "twice"
    /\ Len(output) = 2
    /\ Len(processed) = 3
    /\ output[1].confidence > output[2].confidence
    /\ output[1].class_id # output[2].class_id
    /\ \E d \in Range(processed) : d.bbox[3] = 0

\* The riders and the helmets that pass the confidence filter, counted with
\* their repetitions in the list.
NumRiders ==
    Cardinality({i \in 1..Len(detections) :
        detections[i].class_name = "rider" /\ detections[i].confidence >= min_confidence})

NumHelmets ==
    Cardinality({i \in 1..Len(detections) :
        detections[i].class_name = "helmet" /\ detections[i].confidence >= min_confidence})

\* C27: when the riders are not more than the helmets (both counted after
\* the confidence filter) no violation is returned, whatever the distances;
\* when the riders are more, every rider without a helmet nearer than
\* max_helmet_distance gives one violation and no other rider gives one.
C27_GateOnCounts ==
    apc = "done" =>
        /\ NumRiders <= NumHelmets => violations = <<>>
        /\ NumRiders > NumHelmets =>
              \A r \in RiderSet :
                  SeqCount(violations, NoHelmet(r)) =
                      IF Compliant(r) THEN 0 ELSE SeqCount(detections, r)

C27_Witness ==
    /\ apc = "done"
    /\ NumRiders = 1
    /\ NumHelmets = 1
    /\ Len(detections) = 3
    /\ \E r \in RiderSet : ~Compliant(r)
    /\ violations = <<>>

\* C28: the result of send_batch_notifications has queued equal to the
\* number of payloads passed in; success + failed is the number of payloads
\* handled so far, hence that same number when the call returns; success
\* is the number of jobs the call has put on the queue.
C28_BatchCounts ==
    bpc # "idle" =>
        /\ results.queued = Len(payloads)
        /\ results.success + results.failed = Len(bjob)
        /\ results.success = Len(jobs)
        /\ results.failed = Cardinality({i \in Handled : payloads[i] = "missing"})
        /\ bpc = "done" => results.success + results.failed = Len(payloads)

C28_Witness ==
    /\ bpc = "done"
    /\ payloads = <<"missing", "valid", "invalid">>
    /\ results = [success |-> 2, failed |-> 1, queued |-> 3]

\* ------------------------------------------------- VideoProcessor claims
\* The last n elements of s (all of s if it is shorter).
LastN(s, n) == IF Len(s) <= n THEN s ELSE SubSeq(s, Len(s) - n + 1, Len(s))

\* C29: the buffer never holds more than buffer_size frames, and it holds
\* exactly the frames buffered most recently, in the order they came.
C29_BufferIsRecentWindow ==
    /\ Len(frame_buffer) <= buffer_size
    /\ frame_buffer = LastN(buffered, buffer_size)

C29_Witness ==
    /\ buffer_size = 2
    /\ Len(buffered) = 4
    /\ frame_buffer = <<<<"processed", 1>>, <<"raw", 2>>>>
    /\ buffered[1] = <<"raw", 2>>

\* C30: frame_count is the number of calls of process made, skipped or
\* not; with frame_skip 0 every call returns its processed frame; with
\* frame_skip k > 0 the n-th call returns its processed frame iff n is a
\* multiple of k + 1 and None otherwise; a call that returns None leaves the
\* buffer as it was.
C30_FrameSkipping ==
    /\ [](/\ frame_count = Len(returns)
          /\ \A n \in 1..Len(returns) :
                returns[n].result =
                    IF frame_skip = 0 \/ n % (frame_skip + 1) = 0
                      THEN preprocess(returns[n].frame)
                      ELSE None)
    /\ [][(Len(returns') > Len(returns) /\ returns'[Len(returns')].result = None)
            => frame_buffer' = frame_buffer]_vars
    /\ [][Len(returns') > Len(returns) => frame_count' = frame_count + 1]_vars

C30_Witness ==
    /\ frame_skip = 1
    /\ frame_count = 4
    /\ returns[1].result = None
    /\ returns[2].result = preprocess(returns[2].frame)
    /\ returns[4].result # None
    /\ Len(buffered) = 2

\* ----------------------------------------------------------- ledger claims
\* C25: a recorded violation whose plate has an owner is among the pending
\* violations exactly as long as it is not processed; it is recorded not
\* processed; it becomes processed only by mark_violation_processed called
\* with its id, and that call makes every row of that id processed and leaves
\* every other row as it was; a processed row never becomes unprocessed.
C25_LedgerLifecycle ==
    /\ [](\A i \in 1..Len(ledger) :
            ledger[i].license_plate \in owners =>
                /\ ledger[i] \in get_violations(FALSE) <=> ~ledger[i].processed
                /\ ledger[i] \in get_violations(TRUE) <=> ledger[i].processed)
    /\ [][/\ Len(ledger') >= Len(ledger)
           /\ \A i \in 1..Len(ledger') :
                IF i > Len(ledger)
                  THEN ~ledger'[i].processed
                  ELSE /\ ledger'[i].id = ledger[i].id
                       /\ ledger[i].processed => ledger'[i].processed
                       /\ (~ledger[i].processed /\ ledger'[i].processed) =>
                             last_marked' = ledger[i].id
                       /\ last_marked' = ledger[i].id => ledger'[i].processed]_vars

C25_Witness ==
    /\ Len(ledger) = 3
    /\ ledger[1].license_plate \in owners
    /\ ledger[2].license_plate \in owners
    /\ ledger[2].processed
    /\ ledger[1] \in get_violations(FALSE)
    /\ ledger[3] \notin get_violations(FALSE)
    /\ ~ledger[3].processed
    /\ last_marked = 2

C24_InstancesIndependent ==
    [][\A k \in Instances :
          k # iactor' =>
              /\ iqueue'[QueueOf(k)] = iqueue[QueueOf(k)]
              /\ ijobs'[QueueOf(k)] = ijobs[QueueOf(k)]
              /\ iwpc'[k] = iwpc[k]
              /\ iheld'[k] = iheld[k]]_vars

C24_Witness ==
    /\ iactor = 2
    /\ iwpc[1] = "put"
    /\ ijobs[1] # <<>> /\ ijobs[1][1].retry_count = 2
    /\ ijobs[2] # <<>> /\ ijobs[2][1].retry_count = 1
    /\ iqueue[2] = <<1>>

\* ------------------------------------------------- worker scheduling claims
\* C21, as stated: the worker waits only when the queue is empty or no queued
\* job is due; in particular it never waits out the retry delay of one job
\* while another job is on the queue (every job on the queue is due, C6).
C21_NoWaitWhileJobDue ==
    wpc = "sleep_retry" => queue = <<>>

\* C22, as stated: a Transport call that hangs is timed out, so the worker
\* always has a next step and the other queued jobs go on.
C22_HungAttemptTimesOut ==
    wpc = "hung" => ENABLED WorkerNext

\* C23, as stated: once the dispatcher has stopped, every job that is still
\* QUEUED, RETRY_SCHEDULED or in flight has been surfaced; none is lost.
C23_NothingLostAtShutdown ==
    wpc = "killed" =>
        \A j \in JobIds : (InQueue(j) \/ notification = j) => j \in Surfaced

====
